---- MODULE Spec2Model ----
(***************************************************************************)
(* CRUSH Sales Call Coach (src/app.py): a Streamlit script that is re-run  *)
(* top to bottom on every user interaction.  Texts are modelled as         *)
(* sequences of tokens; a token is either a literal segment of the source  *)
(* text, a placeholder such as "{stage}", or a value typed or selected by  *)
(* the user.  Concatenation of texts is concatenation of sequences.        *)
(***************************************************************************)
EXTENDS Integers, Sequences, FiniteSets, TLC

\* ------------------------------------------------------------------ bounds
\* Longest draft (in words) the user types into the text area.
MaxDraftLen == 2

\* Words a draft is made of: ordinary text and the task delimiter.
DraftWords == {"just checking in", "USER TASK:"}

\* API keys the user or the secrets store may supply (besides the empty one).
ApiKeys == {"sk-1"}

\* Messages carried by a failure of generate_content.
ErrorMessages == {"404 model not found", "429 quota exceeded"}

\* Messages raised by response.text when the response holds no text.
TextErrors == {"blocked"}

\* Texts the backend generates.
ResponseTexts == {"1. Diagnosis & Trap Check ..."}

\* ------------------------------------------------------- program constants
\* The system prompt: a plain (non-f) string literal holding four placeholders.
CRUSH_SYSTEM_INSTRUCTION ==
    << "You are an expert Sales Coach ... for CDM Stage ",
       "{stage}",
       "? * **Empathy Check:** Are they addressing the ",
       "{rubie_role}",
       "'s specific fear ... this specific person (Role: ",
       "{raid_role}",
       ", POV: ",
       "{rubie_role}",
       ") to uncover their hidden Adoption Risk. Tone: Direct, coaching, authoritative. No fluff." >>

models_to_try ==
    << "gemini-1.5-flash",
       "gemini-1.5-flash-latest",
       "gemini-1.5-pro",
       "gemini-1.5-pro-latest",
       "gemini-pro" >>

CdmStages ==
    << "0 - Need (Latent Pain)",
       "1 - Sourcing (Evaluating Options)",
       "2 - Selected (Vendor Chosen)",
       "3 - Ordered (Commercials)",
       "4 - Usage (Implementation)",
       "5 - Adoption (Value Realized)",
       "6 - Assess (Renewal/Pivot)" >>

RaidRoles ==
    << "Recommender (Driver)", "Agree'er (Veto Power)",
       "Informer (Expert)", "Decision Maker (Signer)" >>

RubieRoles ==
    << "User (Usability)", "Implementor (Feasibility)", "Benefactor (Outcomes)",
       "Economic Buyer (ROI)", "Ripple (Impacted)" >>

\* ----------------------------------------------------------------- helpers
Range(s) == {s[i] : i \in 1..Len(s)}

\* sub occurs in s as a contiguous run starting at position i.
OccursAt(s, sub, i) ==
    /\ i >= 1
    /\ i + Len(sub) - 1 <= Len(s)
    /\ SubSeq(s, i, i + Len(sub) - 1) = sub

Contains(s, sub) == \E i \in 1..(Len(s) + 1) : OccursAt(s, sub, i)

Count(s, x) == Cardinality({i \in 1..Len(s) : s[i] = x})

RECURSIVE SeqsUpTo(_, _)
SeqsUpTo(S, n) ==
    IF n = 0 THEN {<<>>}
    ELSE LET shorter == SeqsUpTo(S, n - 1)
         IN  shorter \cup {Append(s, x) : s \in {t \in shorter : Len(t) = n - 1}, x \in S}

Drafts == SeqsUpTo(DraftWords, MaxDraftLen)

\* ---------------------------------------------------------- model resolver
\* Outcome of the two constructor attempts for every candidate name:
\* with_si    - genai.GenerativeModel(name, system_instruction=...) succeeds
\* without_si - genai.GenerativeModel(name) succeeds
InitOutcomes == [Range(models_to_try) -> [with_si : BOOLEAN, without_si : BOOLEAN]]

NoText == <<>>

NoModel == [name |-> "", has_system_instruction |-> FALSE, system_instruction |-> NoText]

\* genai.GenerativeModel(model_name, system_instruction=CRUSH_SYSTEM_INSTRUCTION)
ModelWith(model_name) ==
    [name |-> model_name, has_system_instruction |-> TRUE,
     system_instruction |-> CRUSH_SYSTEM_INSTRUCTION]

\* genai.GenerativeModel(model_name)
ModelWithout(model_name) ==
    [name |-> model_name, has_system_instruction |-> FALSE, system_instruction |-> NoText]

\* "return model, model_name, flag"
Returned(m, model_name, flag) ==
    [returned |-> TRUE, model |-> m, model_name |-> model_name, supports_sys_inst |-> flag]

\* st.error(...); st.stop(): the script run ends inside get_model.
Stopped ==
    [returned |-> FALSE, model |-> NoModel, model_name |-> "", supports_sys_inst |-> FALSE]

\* get_model was not called.
NotCalled ==
    [returned |-> FALSE, model |-> NoModel, model_name |-> "-", supports_sys_inst |-> FALSE]

RECURSIVE try_from(_, _)
try_from(ok, i) ==
    IF i > Len(models_to_try) THEN Stopped
    ELSE LET model_name == models_to_try[i]
         IN  IF ok[model_name].with_si
                 THEN Returned(ModelWith(model_name), model_name, TRUE)
             ELSE IF ok[model_name].without_si
                 THEN Returned(ModelWithout(model_name), model_name, FALSE)
             ELSE try_from(ok, i + 1)

\* Variant: a name whose first attempt fails is given up without the legacy attempt.
RECURSIVE try_from_no_legacy(_, _)
try_from_no_legacy(ok, i) ==
    IF i > Len(models_to_try) THEN Stopped
    ELSE LET model_name == models_to_try[i]
         IN  IF ok[model_name].with_si
                 THEN Returned(ModelWith(model_name), model_name, TRUE)
             ELSE try_from_no_legacy(ok, i + 1)

get_model_no_legacy(ok) == try_from_no_legacy(ok, 1)

get_model(ok) == try_from(ok, 1)

\* ---------------------------------------------------------- prompt strategy
\* The context restatement and the draft, common to both f-strings.
ContextBlock(stage, raid, rubie, draft) ==
    << "CONTEXT:", "- CDM Stage: ", stage, "- RAID Role: ", raid,
       "- RUBIE POV: ", rubie, "USER DRAFT:" >> \o draft

\* final_prompt when supports_sys_inst is true.
CleanPrompt(stage, raid, rubie, draft) == ContextBlock(stage, raid, rubie, draft)

\* Variant: the scenario is put in front of the instruction.
InlinePrompt_context_first(stage, raid, rubie, draft) ==
    << "USER TASK:", "Analyze this scenario:" >>
        \o ContextBlock(stage, raid, rubie, draft)
        \o << "SYSTEM INSTRUCTION:" >> \o CRUSH_SYSTEM_INSTRUCTION

\* final_prompt when supports_sys_inst is false: {CRUSH_SYSTEM_INSTRUCTION}
\* is replaced by the value of the constant, which is not formatted again.
InlinePrompt(stage, raid, rubie, draft) ==
    << "SYSTEM INSTRUCTION:" >> \o CRUSH_SYSTEM_INSTRUCTION
        \o << "USER TASK:", "Analyze this scenario:" >>
        \o ContextBlock(stage, raid, rubie, draft)

\* Variant: the legacy branch is forgotten.
BuildPrompt_clean_only(flag, stage, raid, rubie, draft) ==
    CleanPrompt(stage, raid, rubie, draft)

BuildPrompt(flag, stage, raid, rubie, draft) ==
    IF flag THEN CleanPrompt(stage, raid, rubie, draft)
    ELSE InlinePrompt(stage, raid, rubie, draft)


\* ------------------------------------------------------------------- state
VARIABLES
    secrets,            \* st.secrets: [readable, present, key] for GOOGLE_API_KEY
    sidebar_key,        \* value of the sidebar text input
    cdm_stage,          \* value of the CDM Stage selectbox
    raid_role,          \* value of the RAID Role selectbox
    rubie_role,         \* value of the RUBIE POV selectbox
    user_draft,         \* value of the text area (a sequence of words)
    clicked,            \* this run was started by a click on "Coach Me"
    run_button,         \* the script variable run_button (FALSE until line 148)
    pending,            \* a widget event arrived during this run: rerun requested
    pc,                 \* position of the current script run
    key_on_page,        \* the sidebar key input is on the page
    form_on_page,       \* how many of the five form widgets are on the page
    configured,         \* this run called genai.configure
    interface_calls,    \* how many st.* calls of section 5 this run has made
    reference_calls,    \* how many st.* calls of section 7 this run has made
    resolved,           \* what get_model gave to this run
    final_prompt,       \* final_prompt of this run
    response,           \* what generate_content did in this run
    sent,               \* payloads handed to generate_content in this run
    trace,              \* calls made by the handler of this run, in order
    out,                \* messages this run has put on the page (sections 3, 4, 6)
    init_ok,            \* resolver study: outcome of every constructor attempt
    result,             \* resolver study: result of get_model under init_ok
    prev                \* resolver study: the last result returned before

widgets == << sidebar_key, cdm_stage, raid_role, rubie_role, user_draft >>

page == << key_on_page, form_on_page >>

handler == << resolved, final_prompt, response, sent, trace >>

resolverVars == << init_ok, result, prev >>

appVars ==
    << secrets, widgets, clicked, run_button, pending, pc, page, configured,
       interface_calls, reference_calls, handler, out >>

vars == << appVars, resolverVars >>

\* Everything but the position of the run.
allButPc ==
    << secrets, widgets, clicked, run_button, pending, page, configured,
       interface_calls, reference_calls, handler, out, resolverVars >>

\* ------------------------------------------------------------ page elements
Warning(body)   == [kind |-> "warning",   body |-> body]
Error(body)     == [kind |-> "error",     body |-> body]
Markdown(body)  == [kind |-> "markdown",  body |-> body]
Caption(body)   == [kind |-> "caption",   body |-> body]
Exception(body) == [kind |-> "exception", body |-> body]

KeyWarning    == Warning(<< "Please enter your Google API Key to activate the Coach." >>)
NoModelError  == Error(<< "Could not connect to any Google Gemini model. Please check your API Key." >>)
NoDraftError  == Error(<< "Please enter a draft first." >>)

\* What Streamlit shows for the exception that leaves the script at line 57
\* when st.secrets cannot be read.
SecretsException == Exception(<< "No secrets files found." >>)

\* f"An unexpected error occurred: {e}"
UnexpectedError(e) == Error(<< "An unexpected error occurred: ", e >>)

\* f"Connected via: {model_name}"
ConnectedCaption(model_name) == Caption(<< "Connected via: ", model_name >>)

\* Outcome of model.generate_content: no call yet, a response whose text can
\* be read, a response whose .text raises, or a raise of the call itself.
NoResponse     == [called |-> FALSE, raised |-> FALSE, blocked |-> FALSE, text |-> "", error |-> ""]
Answered(text) == [called |-> TRUE,  raised |-> FALSE, blocked |-> FALSE, text |-> text, error |-> ""]
Blocked(e)     == [called |-> TRUE,  raised |-> FALSE, blocked |-> TRUE,  text |-> "", error |-> e]
Raised(e)      == [called |-> TRUE,  raised |-> TRUE,  blocked |-> FALSE, text |-> "", error |-> e]

\* The secrets store: no secrets file (reading st.secrets raises), a file
\* without GOOGLE_API_KEY, or a file that holds the key.
NoSecretsFile    == [readable |-> FALSE, present |-> FALSE, key |-> ""]
SecretsWithout   == [readable |-> TRUE,  present |-> FALSE, key |-> ""]
SecretsWith(k)   == [readable |-> TRUE,  present |-> TRUE,  key |-> k]

\* api_key as section 3 computes it.
ApiKey(sec, typed) == IF sec.present THEN sec.key ELSE typed

\* The st.* calls of section 5 in the order of lines 101-148; the five
\* widgets are named after the variable they are assigned to.
InterfaceCalls ==
    << "st.title", "st.markdown", "st.caption", "st.columns", "st.header", "st.info",
       "cdm_stage", "st.info", "raid_role", "rubie_role", "st.header", "st.success",
       "user_draft", "run_button" >>

FormWidgets == << "cdm_stage", "raid_role", "rubie_role", "user_draft", "run_button" >>

\* Number of form widgets among the first n calls of section 5.
WidgetsAmong(n) ==
    Cardinality({i \in 1..n : InterfaceCalls[i] \in Range(FormWidgets)})

\* The st.* calls of section 7 (lines 202 and 203).
ReferenceCalls == << "st.markdown", "st.markdown" >>

Max(a, b) == IF a >= b THEN a ELSE b

\* ------------------------------------------------------------ initial state
\* A fresh session: widgets hold their defaults and the first run begins.
FreshRun ==
    /\ pc = "page_config"
    /\ clicked = FALSE
    /\ run_button = FALSE
    /\ pending = FALSE
    /\ key_on_page = FALSE
    /\ form_on_page = 0
    /\ configured = FALSE
    /\ interface_calls = 0
    /\ reference_calls = 0
    /\ resolved = NotCalled
    /\ final_prompt = NoText
    /\ response = NoResponse
    /\ sent = <<>>
    /\ trace = <<>>
    /\ out = <<>>

AllOk == [n \in Range(models_to_try) |-> [with_si |-> TRUE, without_si |-> TRUE]]

Init ==
    /\ secrets \in {NoSecretsFile, SecretsWithout}
                      \cup {SecretsWith(k) : k \in ApiKeys \cup {""}}
    /\ sidebar_key = ""
    /\ cdm_stage = CdmStages[1]
    /\ raid_role = RaidRoles[1]
    /\ rubie_role = RubieRoles[1]
    /\ user_draft = <<>>
    /\ FreshRun
    /\ init_ok = AllOk
    /\ result = NotCalled
    /\ prev = NotCalled

\* ---------------------------------------------------------- user interaction
\* The script is at rest, or its run was ended by a rerun request: the next
\* thing to happen is the new run for the widget event.
Interactive == pc \in {"idle", "interrupted"}

\* Every interaction with a widget on the page starts a new run of the script;
\* what the run before has put on the page stays there until it is replaced.
Rerun(click) ==
    /\ pc' = "page_config"
    /\ clicked' = click
    /\ run_button' = FALSE
    /\ pending' = FALSE
    /\ configured' = FALSE
    /\ interface_calls' = 0
    /\ reference_calls' = 0
    /\ resolved' = NotCalled
    /\ final_prompt' = NoText
    /\ response' = NoResponse
    /\ sent' = <<>>
    /\ trace' = <<>>
    /\ out' = <<>>
    /\ UNCHANGED << secrets, page, resolverVars >>

EnterApiKey ==
    /\ Interactive
    /\ key_on_page
    /\ \E k \in ApiKeys \cup {""} : k # sidebar_key /\ sidebar_key' = k
    /\ UNCHANGED << cdm_stage, raid_role, rubie_role, user_draft >>
    /\ Rerun(FALSE)

SelectStage ==
    /\ Interactive
    /\ form_on_page >= 1
    /\ \E v \in Range(CdmStages) : v # cdm_stage /\ cdm_stage' = v
    /\ UNCHANGED << sidebar_key, raid_role, rubie_role, user_draft >>
    /\ Rerun(FALSE)

SelectRaid ==
    /\ Interactive
    /\ form_on_page >= 2
    /\ \E v \in Range(RaidRoles) : v # raid_role /\ raid_role' = v
    /\ UNCHANGED << sidebar_key, cdm_stage, rubie_role, user_draft >>
    /\ Rerun(FALSE)

SelectRubie ==
    /\ Interactive
    /\ form_on_page >= 3
    /\ \E v \in Range(RubieRoles) : v # rubie_role /\ rubie_role' = v
    /\ UNCHANGED << sidebar_key, cdm_stage, raid_role, user_draft >>
    /\ Rerun(FALSE)

EditDraft ==
    /\ Interactive
    /\ form_on_page >= 4
    /\ \E d \in Drafts : d # user_draft /\ user_draft' = d
    /\ UNCHANGED << sidebar_key, cdm_stage, raid_role, rubie_role >>
    /\ Rerun(FALSE)

ClickCoachMe ==
    /\ Interactive
    /\ form_on_page >= 5
    /\ UNCHANGED widgets
    /\ Rerun(TRUE)

\* ------------------------------------------------------------ the script run
\* While a run is under way the page is live: the user touches a widget of
\* this run, or of the run before where this run has not replaced it yet, and
\* a rerun is requested.  Which widget it was is seen by the run that follows.
WidgetEvent ==
    /\ pc \notin {"idle", "interrupted"}
    /\ ~pending
    /\ key_on_page \/ form_on_page >= 1
    /\ pending' = TRUE
    /\ UNCHANGED << secrets, widgets, clicked, run_button, pc, page, configured,
                    interface_calls, reference_calls, handler, out, resolverVars >>

\* The run goes on at another statement and nothing else changes.
Goto(next) ==
    /\ pc' = next
    /\ UNCHANGED allButPc

\* With a rerun requested, an st.* call ends the run through the script
\* runner's control exception, which "except Exception" does not catch, before
\* the call has put anything on the page.
EndedByRerun == Goto("interrupted")

\* An st.* call that puts a message on the page.
Show(element, next) ==
    IF pending
       THEN EndedByRerun
       ELSE /\ out' = Append(out, element)
            /\ pc' = next
            /\ UNCHANGED << secrets, widgets, clicked, run_button, pending, page,
                            configured, interface_calls, reference_calls, handler,
                            resolverVars >>

\* Section 1: st.set_page_config.
PageConfig ==
    /\ pc = "page_config"
    /\ IF pending THEN EndedByRerun ELSE Goto("api_setup")

\* Section 3, the key: from the secrets, or else from the sidebar input.
\* Without a secrets file the lookup of line 57 raises: the script ends there
\* and Streamlit shows the exception; no widget has been rendered.
ApiSetup ==
    /\ pc = "api_setup"
    /\ IF ~secrets.readable
          THEN /\ out' = Append(out, SecretsException)
               /\ pc' = "idle"
               /\ UNCHANGED << secrets, widgets, clicked, run_button, pending, page,
                               configured, interface_calls, reference_calls, handler,
                               resolverVars >>
       ELSE IF secrets.present
          THEN Goto("key_check")
       ELSE IF pending
          THEN EndedByRerun
       ELSE /\ key_on_page' = TRUE
            /\ pc' = "key_check"
            /\ UNCHANGED << secrets, widgets, clicked, run_button, pending,
                            form_on_page, configured, interface_calls,
                            reference_calls, handler, out, resolverVars >>

\* Section 3, the check: without a key, warn and stop the script.  The run is
\* complete: the form it has not rendered leaves the page and the session
\* drops the values of its widgets.
KeyCheck ==
    /\ pc = "key_check"
    /\ IF ApiKey(secrets, sidebar_key) = ""
          THEN IF pending
                  THEN EndedByRerun
                  ELSE /\ out' = Append(out, KeyWarning)
                       /\ pc' = "idle"
                       /\ form_on_page' = 0
                       /\ cdm_stage' = CdmStages[1]
                       /\ raid_role' = RaidRoles[1]
                       /\ rubie_role' = RubieRoles[1]
                       /\ user_draft' = <<>>
                       /\ UNCHANGED << secrets, sidebar_key, clicked, run_button,
                                       pending, key_on_page, configured,
                                       interface_calls, reference_calls, handler,
                                       resolverVars >>
          ELSE /\ configured' = TRUE
               /\ pc' = "interface"
               /\ UNCHANGED << secrets, widgets, clicked, run_button, pending, page,
                               interface_calls, reference_calls, handler, out,
                               resolverVars >>

\* Section 5, one st.* call per step: title, texts, the three selectboxes, the
\* text area and the button.  A widget rendered is on the page from then on;
\* the button call assigns run_button.
Interface ==
    /\ pc = "interface"
    /\ IF pending
          THEN EndedByRerun
          ELSE LET n == interface_calls + 1
               IN  /\ interface_calls' = n
                   /\ form_on_page' = Max(form_on_page, WidgetsAmong(n))
                   /\ run_button' = IF InterfaceCalls[n] = "run_button"
                                       THEN clicked ELSE run_button
                   /\ pc' = IF n = Len(InterfaceCalls) THEN "output" ELSE "interface"
                   /\ UNCHANGED << secrets, widgets, clicked, pending, key_on_page,
                                   configured, reference_calls, handler, out,
                                   resolverVars >>

\* Variant: the draft is not checked.
OutputGeneration_no_draft_check ==
    /\ pc = "output"
    /\ IF ~run_button
          THEN Goto("sidebar")
       ELSE IF pending
          THEN EndedByRerun
       ELSE Goto("get_model")

\* Section 6, the guards: nothing without a click, an error for an empty
\* draft (st.error), else the spinner (st.spinner) and the try block.
OutputGeneration ==
    /\ pc = "output"
    /\ IF ~run_button
          THEN Goto("sidebar")
       ELSE IF user_draft = <<>>
          THEN Show(NoDraftError, "sidebar")
       ELSE IF pending
          THEN EndedByRerun
       ELSE Goto("get_model")

\* The call of get_model inside the try block.  When every attempt fails,
\* st.error shows the message (or ends the run, a rerun being requested) and
\* st.stop() leaves the script through the script runner's control exception,
\* which "except Exception" does not catch.
GetModel ==
    /\ pc = "get_model"
    /\ \E ok \in InitOutcomes :
          LET r == get_model(ok)
          IN  /\ resolved' = r
              /\ IF r.returned
                    THEN /\ trace' = trace \o << "get_model", "get_model returned" >>
                         /\ pc' = "prompt"
                         /\ UNCHANGED out
                    ELSE /\ trace' = Append(trace, "get_model")
                         /\ IF pending
                               THEN pc' = "interrupted" /\ UNCHANGED out
                               ELSE pc' = "idle" /\ out' = Append(out, NoModelError)
    /\ UNCHANGED << secrets, widgets, clicked, run_button, pending, page, configured,
                    interface_calls, reference_calls, final_prompt, response, sent,
                    resolverVars >>

\* Construct Prompt Strategy.
ConstructPrompt ==
    /\ pc = "prompt"
    /\ final_prompt' = BuildPrompt(resolved.supports_sys_inst,
                                   cdm_stage, raid_role, rubie_role, user_draft)
    /\ trace' = Append(trace, "final_prompt")
    /\ pc' = "generate"
    /\ UNCHANGED << secrets, widgets, clicked, run_button, pending, page, configured,
                    interface_calls, reference_calls, resolved, response, sent, out,
                    resolverVars >>

\* What the backend receives from model.generate_content(final_prompt).
Payload(m, prompt) ==
    [model |-> m.name,
     has_system_instruction |-> m.has_system_instruction,
     system_instruction |-> m.system_instruction,
     prompt |-> prompt]

\* response = model.generate_content(final_prompt), the request: the payload
\* leaves and the script thread blocks until the backend has answered.
Generate ==
    /\ pc = "generate"
    /\ sent' = Append(sent, Payload(resolved.model, final_prompt))
    /\ trace' = Append(trace, "generate_content")
    /\ pc' = "waiting"
    /\ UNCHANGED << secrets, widgets, clicked, run_button, pending, page, configured,
                    interface_calls, reference_calls, resolved, final_prompt,
                    response, out, resolverVars >>

\* model.generate_content comes back: with a response whose text can be read,
\* with a response whose .text raises, or by raising, which leads to the
\* except clause.
GenerateReturns ==
    /\ pc = "waiting"
    /\ \/ \E text \in ResponseTexts : response' = Answered(text) /\ pc' = "separator"
       \/ \E e \in TextErrors : response' = Blocked(e) /\ pc' = "separator"
       \/ \E e \in ErrorMessages : response' = Raised(e) /\ pc' = "except"
    /\ UNCHANGED << secrets, widgets, clicked, run_button, pending, page, configured,
                    interface_calls, reference_calls, resolved, final_prompt, sent,
                    trace, out, resolverVars >>

\* The rest of the try block and its except clause, one st.* call per step:
\* the separator (193), the caption (194), the text (195) and, in the except
\* clause, the error (198).  When reading response.text raises, st.markdown of
\* line 195 is not called and the except clause follows the separator and the
\* caption already rendered.
Render ==
    /\ pc \in {"separator", "caption", "text", "except"}
    /\ IF pc = "separator"
          THEN Show(Markdown(<< "---" >>), "caption")
       ELSE IF pc = "caption"
          THEN Show(ConnectedCaption(resolved.model_name), "text")
       ELSE IF pc = "text"
          THEN IF response.blocked
                  THEN Goto("except")
                  ELSE Show(Markdown(<< response.text >>), "sidebar")
       ELSE Show(UnexpectedError(response.error), "sidebar")

\* Section 7, one st.* call per step: the sidebar reference, then the run is
\* over.
Sidebar ==
    /\ pc = "sidebar"
    /\ IF pending
          THEN EndedByRerun
          ELSE /\ reference_calls' = reference_calls + 1
               /\ pc' = IF reference_calls + 1 = Len(ReferenceCalls)
                           THEN "idle" ELSE "sidebar"
               /\ UNCHANGED << secrets, widgets, clicked, run_button, pending, page,
                               configured, interface_calls, handler, out,
                               resolverVars >>

Next ==
    \/ EnterApiKey
    \/ SelectStage
    \/ SelectRaid
    \/ SelectRubie
    \/ EditDraft
    \/ ClickCoachMe
    \/ WidgetEvent
    \/ PageConfig
    \/ ApiSetup
    \/ KeyCheck
    \/ Interface
    \/ OutputGeneration
    \/ GetModel
    \/ ConstructPrompt
    \/ Generate
    \/ GenerateReturns
    \/ Render
    \/ Sidebar

Spec == Init /\ [][Next]_vars

\* ----------------------------------------------------------- resolver study
\* get_model as a function of the constructor outcomes: the outcomes are drawn
\* from every pattern, may change between two resolutions, and get_model is
\* applied to them.
InitResolver ==
    /\ secrets = SecretsWith("sk-1")
    /\ sidebar_key = ""
    /\ cdm_stage = CdmStages[1]
    /\ raid_role = RaidRoles[1]
    /\ rubie_role = RubieRoles[1]
    /\ user_draft = <<>>
    /\ FreshRun
    /\ init_ok \in InitOutcomes
    /\ result = NotCalled
    /\ prev = NotCalled

Resolve ==
    /\ result = NotCalled
    /\ result' = get_model(init_ok)
    /\ UNCHANGED << appVars, init_ok, prev >>

BackendChanges ==
    /\ result # NotCalled
    /\ init_ok' \in InitOutcomes
    /\ prev' = IF result.returned THEN result ELSE prev
    /\ result' = NotCalled
    /\ UNCHANGED appVars

NextResolver == Resolve \/ BackendChanges

SpecResolver == InitResolver /\ [][NextResolver]_vars

\* ------------------------------------------------------------------- claims
Placeholders == {"{stage}", "{raid_role}", "{rubie_role}"}

\* str.format over a token text: every placeholder is replaced by its binding.
Format(template, bindings) ==
    [i \in 1..Len(template) |->
        IF template[i] \in DOMAIN bindings THEN bindings[template[i]] ELSE template[i]]

\* The template instantiated with what the user selected.
RenderedInstruction ==
    Format(CRUSH_SYSTEM_INSTRUCTION,
           ("{stage}" :> cdm_stage) @@ ("{raid_role}" :> raid_role)
               @@ ("{rubie_role}" :> rubie_role))

\* The part of a prompt the program wrote: everything before the draft.
AuthoredPart(prompt) == SubSeq(prompt, 1, Len(prompt) - Len(user_draft))

\* The instruction text a payload carries, whichever the channel.
DeliveredInstruction(p) ==
    IF p.has_system_instruction THEN p.system_instruction
    ELSE SubSeq(p.prompt, 2, 1 + Len(CRUSH_SYSTEM_INSTRUCTION))

IndexOf(name) == CHOOSE i \in 1..Len(models_to_try) : models_to_try[i] = name

FirstIndex(s, x) == CHOOSE i \in 1..Len(s) : s[i] = x /\ \A j \in 1..(i - 1) : s[j] # x

\* The script has run to its end or to an st.stop().
RunComplete == pc = "idle"

\* The button was pressed with a non-empty draft; run_button is assigned at
\* line 148 only, in a run that has passed the key check.
GenerateAction == run_button /\ user_draft # <<>> /\ configured

\* generate_content raised, or gave a response whose text cannot be read.
GenerationFailed == response.raised \/ response.blocked

\* ---- C1
\* C1: once get_model has been applied, it has returned a (model, identifier,
\* flag) result, whatever the constructor outcomes.
C1_AlwaysReturns == result # NotCalled => result.returned

\* ---- C2
\* C2: every payload handed to generate_content carries the template with
\* {stage}, {raid_role} and {rubie_role} replaced by the selected values, and
\* no placeholder is left in the instruction delivered.
C2_InstructionInstantiated ==
    \A i \in 1..Len(sent) :
        /\ DeliveredInstruction(sent[i]) = RenderedInstruction
        /\ Range(DeliveredInstruction(sent[i])) \cap Placeholders = {}

\* ---- C3
\* C3: every payload carries the instruction by exactly one channel: with the
\* flag true the model holds the system instruction and the prompt is the
\* context restatement and draft only; with the flag false the model holds no
\* system instruction and the prompt written by the program contains it.
C3_ExactlyOneChannel ==
    \A i \in 1..Len(sent) :
        LET p == sent[i]
            inSlot   == p.has_system_instruction
                            /\ p.system_instruction = CRUSH_SYSTEM_INSTRUCTION
            inPrompt == Contains(AuthoredPart(p.prompt), CRUSH_SYSTEM_INSTRUCTION)
        IN  /\ inSlot # inPrompt
            /\ inSlot <=> resolved.supports_sys_inst
            /\ resolved.supports_sys_inst =>
                  p.prompt = ContextBlock(cdm_stage, raid_role, rubie_role, user_draft)
            /\ ~resolved.supports_sys_inst =>
                  ~p.has_system_instruction /\ p.system_instruction = NoText

C3_Witness ==
    /\ Len(sent) = 1
    /\ ~resolved.supports_sys_inst
    /\ Contains(sent[1].prompt, CRUSH_SYSTEM_INSTRUCTION)

\* ---- C4
\* C4: two resolutions that return the same identifier return the same flag.
C4_FlagFunctionOfIdentifier ==
    (prev.returned /\ result.returned /\ prev.model_name = result.model_name)
        => prev.supports_sys_inst = result.supports_sys_inst

\* ---- C5
\* C5: generate_content is never called before get_model has returned and
\* never more than once in a run, and a generate action (button pressed with a
\* non-empty draft and a key) that has run to its end has resolved the model
\* and then called generate_content exactly once.
C5_ExactlyOneCall ==
    /\ Count(trace, "generate_content") <= 1
    /\ Len(sent) = Count(trace, "generate_content")
    /\ Count(trace, "generate_content") = 1 =>
          /\ Count(trace, "get_model returned") = 1
          /\ FirstIndex(trace, "get_model returned") < FirstIndex(trace, "generate_content")
    /\ (RunComplete /\ GenerateAction) =>
          /\ resolved.returned
          /\ Count(trace, "generate_content") = 1

C7_InlineOrder ==
    (final_prompt # NoText /\ ~resolved.supports_sys_inst) =>
        LET ctx == ContextBlock(cdm_stage, raid_role, rubie_role, user_draft)
            j   == FirstIndex(final_prompt, "USER TASK:")
            k   == Len(final_prompt) - Len(ctx) + 1
        IN  /\ "USER TASK:" \in Range(final_prompt)
            /\ \E i \in 1..j :
                  /\ OccursAt(final_prompt, CRUSH_SYSTEM_INSTRUCTION, i)
                  /\ i + Len(CRUSH_SYSTEM_INSTRUCTION) <= j
            /\ j < k
            /\ OccursAt(final_prompt, ctx, k)
            /\ SubSeq(final_prompt, k, k + 6) =
                  << "CONTEXT:", "- CDM Stage: ", cdm_stage, "- RAID Role: ", raid_role,
                     "- RUBIE POV: ", rubie_role >>

C7_Witness ==
    /\ Len(sent) = 1
    /\ ~resolved.supports_sys_inst
    /\ sent[1].prompt = final_prompt
    /\ "USER TASK:" \in Range(user_draft)
    /\ cdm_stage # CdmStages[1]

C9_FirstSuccessInOrder ==
    result.returned =>
        LET k == IndexOf(result.model_name)
            o == init_ok[result.model_name]
        IN  /\ \A j \in 1..(k - 1) :
                  ~init_ok[models_to_try[j]].with_si /\ ~init_ok[models_to_try[j]].without_si
            /\ o.with_si \/ o.without_si
            /\ o.with_si => result.supports_sys_inst
            /\ ~result.supports_sys_inst => (~o.with_si /\ o.without_si)

C9_Witness ==
    /\ result.returned
    /\ result.model_name = "gemini-1.5-pro"
    /\ ~result.supports_sys_inst
    /\ init_ok["gemini-pro"].with_si

\* ---- C10
\* C10: while neither the secrets store nor the sidebar input supplies a
\* non-empty key, the run configures no client, renders nothing of the form,
\* handles no click, resolves no model and calls nothing, and the script has
\* stopped with the warning as its only output.
C10_NoKeyNoCall ==
    ApiKey(secrets, sidebar_key) = "" =>
        /\ ~configured
        /\ interface_calls = 0
        /\ reference_calls = 0
        /\ ~run_button
        /\ trace = <<>>
        /\ resolved = NotCalled
        /\ final_prompt = NoText
        /\ sent = <<>>
        /\ ~response.called
        /\ pc \in {"page_config", "api_setup", "key_check", "idle", "interrupted"}
        /\ RunComplete => out = << KeyWarning >>

====
